---- MODULE Spec2Model ----
(***************************************************************************)
(* A model of cg3Dguru/user_data/core.py: attribute descriptors (Attr,     *)
(* Compound), Record, and the BaseData orchestrator acting on a Maya       *)
(* scene.  The scene (nodes, their dynamic attributes, the DataRecords     *)
(* multi attribute) is the host's state; the host calls (pm.addAttr,       *)
(* pm.hasAttr, pm.copyAttr, ...) are modelled by their documented effect.  *)
(* Python strings that the code splits or joins are sequences of           *)
(* one-character strings; attribute and node names are plain strings.      *)
(***************************************************************************)
EXTENDS Integers, Sequences, FiniteSets, TLC

VARIABLES scene, cls_version, AUTO_UPDATE, inst, last,
          heap, compounds, clast,
          indices, idx,
          tree, name_list,
          rt,
          fl,
          own, calls

vars == <<scene, cls_version, AUTO_UPDATE, inst, last,
          heap, compounds, clast, indices, idx, tree, name_list, rt,
          fl,
          own, calls>>

sceneVars == <<scene, cls_version, AUTO_UPDATE, inst, last>>
compoundVars == <<heap, compounds, clast>>
allocVars == <<indices, idx>>
flattenVars == <<tree, name_list>>
cacheVars == <<own, calls>>
\* What the specifications of single functions work on.
unitVars == <<allocVars, flattenVars, rt, fl, cacheVars>>

(***************************************************************************)
(* Bounds of the model.                                                    *)
(***************************************************************************)
MaxMajor == 1
MaxIndex == 1
MaxScratch == 1
MaxCompounds == 2
MaxChildren == 3
MaxAllocIndex == 6

None == "None"

\* core.py:29
_RECORDS_NAME == "DataRecords"
\* core.py:32
_DEFAULT_NODE_TYPE == "network"

(***************************************************************************)
(* Python string and tuple primitives used by the code.                    *)
(***************************************************************************)
DigitChars == <<"0", "1", "2", "3", "4", "5", "6", "7", "8", "9">>

\* str(n) for a non-negative int: its decimal digits.
RECURSIVE IntToChars(_)
IntToChars(n) ==
    IF n < 10 THEN <<DigitChars[n + 1]>>
    ELSE IntToChars(n \div 10) \o <<DigitChars[(n % 10) + 1]>>

DigitValue(ch) == CHOOSE d \in 0..9 : DigitChars[d + 1] = ch

\* int(s) for a string of decimal digits.
RECURSIVE CharsToInt(_)
CharsToInt(s) ==
    IF Len(s) = 0 THEN 0
    ELSE 10 * CharsToInt(SubSeq(s, 1, Len(s) - 1)) + DigitValue(s[Len(s)])

\* sep.join(parts)
RECURSIVE Join(_, _)
Join(parts, sep) ==
    IF Len(parts) = 0 THEN <<>>
    ELSE IF Len(parts) = 1 THEN parts[1]
    ELSE parts[1] \o <<sep>> \o Join(Tail(parts), sep)

\* s.split(sep)
RECURSIVE Split(_, _)
Split(s, sep) ==
    IF \A i \in 1..Len(s) : s[i] # sep THEN <<s>>
    ELSE LET k == CHOOSE i \in 1..Len(s) :
                      s[i] = sep /\ \A j \in 1..(i - 1) : s[j] # sep
         IN <<SubSeq(s, 1, k - 1)>> \o Split(SubSeq(s, k + 1, Len(s)), sep)

MapSeq(Op(_), s) == [i \in 1..Len(s) |-> Op(s[i])]

\* A comparison that asks every component to be no larger and one smaller.
TupleLess_componentwise(a, b) ==
    /\ Len(a) = Len(b)
    /\ \A i \in 1..Len(a) : a[i] <= b[i]
    /\ \E i \in 1..Len(a) : a[i] < b[i]

\* Python's tuple comparison a < b: lexicographic, a proper prefix is smaller.
RECURSIVE TupleLess(_, _)
TupleLess(a, b) ==
    IF Len(b) = 0 THEN FALSE
    ELSE IF Len(a) = 0 THEN TRUE
    ELSE IF a[1] < b[1] THEN TRUE
    ELSE IF a[1] > b[1] THEN FALSE
    ELSE TupleLess(Tail(a), Tail(b))

\* The elements of a finite set of integers, in increasing order.
RECURSIVE SortedSeq(_)
SortedSeq(S) ==
    IF S = {} THEN <<>>
    ELSE LET m == CHOOSE x \in S : \A y \in S : x <= y
         IN <<m>> \o SortedSeq(S \ {m})

Range(s) == {s[i] : i \in 1..Len(s)}

(***************************************************************************)
(* Attr and Compound descriptors (core.py:50-195).  A descriptor's flags   *)
(* are the set of keyword names it keeps.  A children list is a Python     *)
(* list object: `heap` maps list identities to their contents, and a       *)
(* Compound holds the identity of its list.                                *)
(***************************************************************************)
AttrInvalidFlags ==
    {"longName", "ln", "attributeType", "at", "dataType", "dt", "p", "parent",
     "numberOfchildren", "nc"}

Attr_clear_invalid_flags(flags) == flags \ AttrInvalidFlags

\* Attr.__init__
Attr(name, attr_type, flags) ==
    [name |-> name, attr_type |-> attr_type,
     flags |-> Attr_clear_invalid_flags(flags)]

compound_types ==
    [t \in {"compound", "reflectance", "spectrum", "float2", "float3",
            "double2", "double3", "long2", "long3", "short2", "short3"} |->
        CASE t = "compound" -> 0
          [] t \in {"float2", "double2", "long2", "short2"} -> 2
          [] OTHER -> 3]

\* attr_type[0] for the type names the model uses.
FirstChar(attr_type) ==
    CASE attr_type \in {"float", "float2", "float3"} -> "f"
      [] attr_type \in {"long", "long2", "long3"} -> "l"
      [] attr_type \in {"short", "short2", "short3", "spectrum", "string"} -> "s"
      [] attr_type \in {"double", "double2", "double3"} -> "d"
      [] attr_type = "reflectance" -> "r"
      [] attr_type = "compound" -> "c"
      [] OTHER -> "?"

xyz == <<"X", "Y", "Z">>
rgb == <<"R", "G", "B">>

suffix_of(attr_type, flags) ==
    IF "usedAsColor" \in flags \/ "uac" \in flags
       \/ attr_type = "spectrum" \/ attr_type = "reflectance"
    THEN rgb ELSE xyz

child_type_of(attr_type) ==
    CASE FirstChar(attr_type) = "f" -> "float"
      [] FirstChar(attr_type) = "l" -> "long"
      [] FirstChar(attr_type) = "s" -> "short"
      [] OTHER -> "double"

\* Compound.add_child on the list `lst`: pm.error when the list already
\* holds more than target_size children, else append.
add_child(lst, target_size, child) ==
    IF target_size # 0 /\ Len(lst) > target_size
    THEN [ok |-> FALSE, lst |-> lst]
    ELSE [ok |-> TRUE, lst |-> Append(lst, child)]

\* Compound._make_elements: add_child for i in range(0, target_size).
RECURSIVE make_elements_from(_, _, _, _, _, _)
make_elements_from(lst, i, name, attr_type, flags, target_size) ==
    IF i >= target_size THEN [ok |-> TRUE, lst |-> lst]
    ELSE LET child == Attr(name \o suffix_of(attr_type, flags)[i + 1],
                           child_type_of(attr_type), {})
             r == add_child(lst, target_size, child)
         IN IF ~r.ok THEN r
            ELSE make_elements_from(r.lst, i + 1, name, attr_type, flags,
                                    target_size)

_make_elements(lst, name, attr_type, flags, target_size) ==
    make_elements_from(lst, 0, name, attr_type, flags, target_size)

\* Compound.count
count(h, obj) == Len(h[obj.children])

\* A validate that accepts any number of children from target_size up.
validate_atleast(target_size, n_children) ==
    IF target_size = 0 THEN n_children > 0
    ELSE n_children >= target_size

\* Compound.validate: TRUE when it returns, FALSE when it calls pm.error.
validate(target_size, n_children) ==
    IF target_size = 0 THEN n_children > 0
    ELSE n_children = target_size

\* The list object bound to the default `children = []` of Compound.__init__.
DefaultList == 0

\* Compound.__init__(name, attr_type, children, make_elements, **flags) with
\* `children` the list identity `lid` (already in h).
Compound_init(h, name, attr_type, lid, make_elements, flags) ==
    LET a == Attr(name, attr_type, flags)
    IN IF attr_type \notin DOMAIN compound_types
       THEN [ok |-> FALSE, h |-> h, obj |-> None]
       ELSE LET ts == compound_types[attr_type]
                obj == [name |-> a.name, attr_type |-> a.attr_type,
                        flags |-> a.flags, target_size |-> ts,
                        children |-> lid]
            IN IF ts # 0 /\ make_elements
               THEN IF Len(h[lid]) > 0
                    THEN [ok |-> FALSE, h |-> h, obj |-> None]
                    ELSE LET r == _make_elements(h[lid], a.name, a.attr_type,
                                                 a.flags, ts)
                         IN [ok |-> r.ok, h |-> [h EXCEPT ![lid] = r.lst],
                             obj |-> IF r.ok THEN obj ELSE None]
               ELSE [ok |-> TRUE, h |-> h, obj |-> obj]

\* create_attr(name, attr_type) for a compound type: Compound(name, attr_type).
create_attr(h, name, attr_type) ==
    Compound_init(h, name, attr_type, DefaultList, TRUE, {})


(***************************************************************************)
(* Constructing and using Compound descriptors.  `compounds` is the        *)
(* sequence of Compound objects constructed so far, `heap` the children    *)
(* lists, `clast` what the last descriptor call did.                       *)
(***************************************************************************)
\* The name given to the k-th Compound constructed.
CompoundNames == <<"a", "b", "c", "d">>
\* The attr_type and flags callers pass.
CompoundArgs == {<<"long2", {}>>, <<"long2", {"uac"}>>, <<"spectrum", {}>>,
                 <<"compound", {}>>, <<"float", {}>>}
\* The lengths of the lists callers pass as `children`.
CallerSizes == {0, 3}
ChildNames == <<"c1", "c2", "c3", "c4", "c5", "c6", "c7">>

\* The argument of a call that leaves `children` out.
NotGiven == -1

\* A caller's list of k descriptors.
CallerChildren(k) == [i \in 1..k |-> Attr(ChildNames[i], "double", {})]

NewListId(h) == Cardinality(DOMAIN h)

\* Compound(name, attr_type, [children], [make_elements], **flags)
NewCompound(name, attr_type, k, make, flags) ==
    /\ Len(compounds) < MaxCompounds
    /\ LET lid == IF k = NotGiven THEN DefaultList ELSE NewListId(heap)
           h0 == IF k = NotGiven THEN heap
                 ELSE heap @@ (lid :> CallerChildren(k))
           r == Compound_init(h0, name, attr_type, lid, make, flags)
       IN /\ heap' = IF r.ok THEN r.h ELSE heap
          /\ compounds' = IF r.ok THEN Append(compounds, r.obj) ELSE compounds
          /\ clast' = [op |-> "new",
                       obj |-> IF r.ok THEN Len(compounds) + 1 ELSE 0,
                       ok |-> r.ok, k |-> k, make |-> make,
                       name |-> name, attr_type |-> attr_type, flags |-> flags]
    /\ UNCHANGED <<sceneVars, unitVars>>

\* compounds[i].add_child(Attr(child, "double"))
AddChild(i, child) ==
    /\ i \in 1..Len(compounds)
    /\ Len(heap[compounds[i].children]) <= MaxChildren
    /\ LET o == compounds[i]
           r == add_child(heap[o.children], o.target_size,
                          Attr(child, "double", {}))
       IN /\ heap' = [heap EXCEPT ![o.children] = r.lst]
          /\ clast' = [op |-> "add_child", obj |-> i, ok |-> r.ok,
                       k |-> NotGiven, make |-> FALSE, name |-> o.name,
                       attr_type |-> o.attr_type, flags |-> o.flags]
    /\ UNCHANGED <<compounds, sceneVars, unitVars>>

\* compounds[i].validate()
Validate(i) ==
    /\ i \in 1..Len(compounds)
    /\ clast' = [op |-> "validate", obj |-> i,
                 ok |-> validate(compounds[i].target_size,
                                 count(heap, compounds[i])),
                 k |-> NotGiven, make |-> FALSE, name |-> compounds[i].name,
                 attr_type |-> compounds[i].attr_type,
                 flags |-> compounds[i].flags]
    /\ UNCHANGED <<heap, compounds, sceneVars, unitVars>>

NextCompound ==
    \/ \E name \in {CompoundNames[Len(compounds) + 1]},
          tf \in CompoundArgs,
          k \in {NotGiven} \cup CallerSizes, make \in BOOLEAN :
            NewCompound(name, tf[1], k, make, tf[2])
    \/ \E i \in 1..MaxCompounds, child \in {"extra"} : AddChild(i, child)
    \/ \E i \in 1..MaxCompounds : Validate(i)


(***************************************************************************)
(* Data-block classes.  Two subclasses of BaseData stand for the user's    *)
(* classes; each overrides get_attributes() (core.py:244-246, 482-484).    *)
(* A schema descriptor carries its children inline.                        *)
(***************************************************************************)
Classes == {"A", "B"}

LeafAttr(a) ==
    [kind |-> "Attr", name |-> a.name, attr_type |-> a.attr_type,
     flags |-> a.flags, target_size |-> 0, children |-> <<>>]

\* A constructed Compound r = [ok, h, obj] with the children inline.
InlineCompound(r) ==
    [kind |-> "Compound", name |-> r.obj.name,
     attr_type |-> r.obj.attr_type, flags |-> r.obj.flags,
     target_size |-> r.obj.target_size,
     children |-> MapSeq(LeafAttr, r.h[DefaultList])]

\* create_attr(name, attr_type) for a compound type, children inline.
CompoundAttr(name, attr_type) ==
    InlineCompound(create_attr([l \in {DefaultList} |-> <<>>], name, attr_type))

\* cls.get_attributes() of the classes: A and B are the two classes used
\* on the scene; P, Q (a subclass of P), R (a subclass of Q) and E (no
\* attributes) are the classes whose descriptor lists are looked up.
get_attributes(c) ==
    CASE c = "A" ->
           <<LeafAttr(Attr("speed", "float", {})), CompoundAttr("space", "float3")>>
      [] c = "B" ->
           <<LeafAttr(Attr("tag", "string", {})),
             LeafAttr(Attr("visibility", "bool", {}))>>
      [] c = "P" -> <<LeafAttr(Attr("p", "float", {}))>>
      [] c = "Q" -> <<LeafAttr(Attr("p", "float", {})),
                      LeafAttr(Attr("q", "float", {}))>>
      [] c = "R" -> <<LeafAttr(Attr("p", "float", {})),
                      LeafAttr(Attr("q", "float", {})),
                      LeafAttr(Attr("r", "float", {}))>>
      [] c = "E" -> <<>>

\* The descriptor list an earlier definition of the class returned: the
\* attribute tree of a data block saved by that definition has these names.
old_attributes(c) ==
    IF c = "A"
    THEN <<LeafAttr(Attr("velocity", "float", {})), CompoundAttr("space", "float3")>>
    ELSE get_attributes(c)

\* cls.attributes after _init_class_attributes()
attributes(c) == get_attributes(c)

\* BaseData.get_default_flags
get_default_flags(c) == {}

\* BaseData.get_data_name: the class name.
get_data_name(c) == c

\* The characters of a data name (class names here are one character long).
NameChars(name) == <<name>>

\* BaseData._get_attribute_names / get_attribute_names: pre-order flattening.
RECURSIVE _get_attribute_names(_)
RECURSIVE names_of_list(_)
\* A flattening that lists a compound's children before the compound.
_get_attribute_names_children_first(attr) ==
    (IF attr.kind = "Compound" THEN names_of_list(attr.children) ELSE <<>>)
    \o <<attr.name>>

_get_attribute_names(attr) ==
    <<attr.name>> \o
    (IF attr.kind = "Compound" THEN names_of_list(attr.children) ELSE <<>>)

names_of_list(attrs) ==
    IF Len(attrs) = 0 THEN <<>>
    ELSE _get_attribute_names(Head(attrs)) \o names_of_list(Tail(attrs))

get_attribute_names(c) == names_of_list(attributes(c))

(***************************************************************************)
(* The host scene.  A node is [type, hasRecords, records, attrs]:          *)
(* hasRecords says whether the DataRecords multi attribute exists, records *)
(* maps each used index of it to [str, locked], and attrs maps the name of *)
(* each dynamic attribute to [parent, val].                                *)
(***************************************************************************)
LiveNodes == {"n1"}
ScratchNames == <<"TRASH", "TRASH1", "TRASH2">>
ScratchNodes == {ScratchNames[i] : i \in 1..MaxScratch}

EmptyFn == [x \in {} |-> 0]

\* Attributes every node of a type has without anyone adding them.
BuiltinAttrs(type) ==
    IF type = "transform" THEN {"message", "visibility"} ELSE {"message"}

\* pm.general.createNode(nodeType)
createNode(type) ==
    [type |-> type, hasRecords |-> FALSE, records |-> EmptyFn, attrs |-> EmptyFn]

\* pm.hasAttr(node, name)
hasAttr(nd, name) ==
    \/ name \in DOMAIN nd.attrs
    \/ name \in BuiltinAttrs(nd.type)
    \/ (name = _RECORDS_NAME /\ nd.hasRecords)

\* pm.addAttr(node, ln = name, parent = parent): fails on an existing name.
addAttr(nd, name, parent) ==
    IF hasAttr(nd, name) THEN [ok |-> FALSE, nd |-> nd]
    ELSE [ok |-> TRUE,
          nd |-> [nd EXCEPT !.attrs = @ @@ (name :> [parent |-> parent, val |-> 0])]]

\* Is attribute a the attribute `name` or below it in the node's tree?
RECURSIVE IsUnder(_, _, _)
IsUnder(nd, a, name) ==
    \/ a = name
    \/ (a \in DOMAIN nd.attrs /\ nd.attrs[a].parent # ""
        /\ IsUnder(nd, nd.attrs[a].parent, name))

\* pm.deleteAttr(node, at = name): removes the attribute and its children.
deleteAttr(nd, name) ==
    IF name \notin DOMAIN nd.attrs THEN [ok |-> FALSE, nd |-> nd]
    ELSE [ok |-> TRUE,
          nd |-> [nd EXCEPT !.attrs =
                     [a \in {x \in DOMAIN nd.attrs : ~IsUnder(nd, x, name)} |->
                         nd.attrs[a]]]]

\* pm.copyAttr(src, dst, at = names, values = True): fails when a listed
\* attribute is missing on either node, else copies the values.
copyAttr(src, dst, names) ==
    IF \E i \in 1..Len(names) :
           names[i] \notin DOMAIN src.attrs \/ names[i] \notin DOMAIN dst.attrs
    THEN [ok |-> FALSE, nd |-> dst]
    ELSE [ok |-> TRUE,
          nd |-> [dst EXCEPT !.attrs =
                     [a \in DOMAIN dst.attrs |->
                         IF a \in Range(names)
                         THEN [dst.attrs[a] EXCEPT !.val = src.attrs[a].val]
                         ELSE dst.attrs[a]]]]

\* BaseData.add_attr(attr, parent_name), threaded through r = [ok, nd].
RECURSIVE add_attr(_, _, _)
RECURSIVE add_attr_list(_, _, _)
add_attr(r, attr, parent_name) ==
    IF ~r.ok THEN r
    ELSE IF attr.kind = "Compound"
    THEN IF ~validate(attr.target_size, Len(attr.children))
         THEN [ok |-> FALSE, nd |-> r.nd]
         ELSE add_attr_list(addAttr(r.nd, attr.name, parent_name),
                            attr.children, attr.name)
    ELSE addAttr(r.nd, attr.name, parent_name)

add_attr_list(r, attrs, parent_name) ==
    IF Len(attrs) = 0 THEN r
    ELSE add_attr_list(add_attr(r, Head(attrs), parent_name), Tail(attrs),
                       parent_name)

\* The body of BaseData._create_data for a given descriptor list.
create_tree(nd, long_name, attrs) ==
    add_attr_list(addAttr(nd, long_name, ""), attrs, long_name)

\* BaseData._create_data
_create_data(nd, c) == create_tree(nd, get_data_name(c), attributes(c))


(***************************************************************************)
(* Records (core.py:199-237, 332-409).                                     *)
(***************************************************************************)
\* found_record = None
NoRecord == -1

RECURSIVE version_string_unseparated(_)

\* A version string with nothing between the numbers.
version_string_unseparated(version) ==
    IF Len(version) = 0 THEN <<>>
    ELSE IntToChars(version[1]) \o
         version_string_unseparated(Tail(version))

\* '.'.join(map(str, version)) for a version tuple.
version_string(version) == Join(MapSeq(IntToChars, version), ".")

\* '{0}:{1}'.format(name, version string)
record_string(name, version_str) == NameChars(name) \o <<":">> \o version_str

\* Record.__init__: name and version parsed from the element's string.
Record(str) ==
    LET parts == Split(str, ":")
    IN [name |-> parts[1],
        version |-> MapSeq(CharsToInt, Split(parts[2], "."))]

\* records.getArrayIndices(): the used indices, increasing.
getArrayIndices(nd) == SortedSeq(DOMAIN nd.records)

\* BaseData._get_records(node, force_add): the node after the call; the
\* handle it returns exists exactly when the node then has the array.
_get_records(nd, force_add) ==
    IF ~nd.hasRecords /\ force_add THEN [nd EXCEPT !.hasRecords = TRUE]
    ELSE nd

\* BaseData._get_record_by_name: the index of the first element whose name
\* part is data_name, or NoRecord.
_get_record_by_name(nd, data_name) ==
    LET hits == {i \in DOMAIN nd.records :
                    /\ Len(nd.records[i].str) > 0
                    /\ Split(nd.records[i].str, ":")[1] = NameChars(data_name)}
    IN IF ~nd.hasRecords \/ hits = {} THEN NoRecord
       ELSE CHOOSE i \in hits : \A j \in hits : i <= j

\* BaseData.get_record
get_record(nd, c) == _get_record_by_name(nd, get_data_name(c))

\* An allocation that appends at the number of used indices.
choose_index_count(inds) == Len(inds)

\* The index _add_data_to_records picks for used indices `inds` (increasing).
choose_index(inds) ==
    IF Len(inds) = 0 THEN 0
    ELSE LET holes == {i \in 0..(inds[Len(inds)] - 1) : i \notin Range(inds)}
         IN IF holes # {} THEN CHOOSE i \in holes : \A j \in holes : i <= j
            ELSE inds[Len(inds)] + 1

\* What `cls.version` evaluates to inside the classmethod
\* get_version_string: `version` is a property defined on BaseData
\* (core.py:304-311), and looked up on the class it is the property object
\* itself, not the tuple an instance's self.version gives.
class_attr_version(c, cv) == [py |-> "property", val |-> <<>>]

\* self.version on an instance: get_class_version() = cls._version.
instance_version(c, cv) == cv[c]

\* BaseData.get_version_string: map(str, x) raises TypeError unless x is
\* iterable.
get_version_string(c, cv) ==
    LET v == class_attr_version(c, cv)
    IN IF v.py = "tuple" THEN [ok |-> TRUE, str |-> version_string(v.val)]
       ELSE [ok |-> FALSE, str |-> <<>>]

\* core.py:351-353: the element idx is written and locked, unless
\* get_version_string raised.
write_record(nd, c, i, vs) ==
    IF ~vs.ok THEN [ok |-> FALSE, nd |-> nd, idx |-> i]
    ELSE [ok |-> TRUE, idx |-> i,
          nd |-> [nd EXCEPT !.records = (i :>
                    [str |-> record_string(get_data_name(c), vs.str),
                     locked |-> TRUE]) @@ @]]

\* BaseData._add_data_to_records with self._records the node's array.
_add_data_to_records(nd, c, cv) ==
    IF ~nd.hasRecords THEN [ok |-> TRUE, nd |-> nd, idx |-> NoRecord]
    ELSE write_record(nd, c, choose_index(getArrayIndices(nd)),
                      get_version_string(c, cv))

\* attr.set(str) on a records element: a locked attribute is not written.
attr_set(el, str) == IF el.locked THEN el ELSE [el EXCEPT !.str = str]

\* A version setter that writes the element and leaves it unlocked.
set_record_version_unlocked(nd, i, value) ==
    LET name == Record(nd.records[i].str).name
        unlocked == [nd EXCEPT !.records[i].locked = FALSE]
    IN [unlocked EXCEPT !.records[i] =
           attr_set(@, name \o <<":">> \o version_string(value))]

\* Record.version setter on element i: unlock, reassign, re-encode, lock.
set_record_version(nd, i, value) ==
    LET name == Record(nd.records[i].str).name
        unlocked == [nd EXCEPT !.records[i].locked = FALSE]
        written == [unlocked EXCEPT !.records[i] =
                       attr_set(@, name \o <<":">> \o version_string(value))]
    IN [written EXCEPT !.records[i].locked = TRUE]

\* BaseData._find_attr_conflicts: the conflicting names (pm.error if any).
_find_attr_conflicts(nd, c) ==
    LET flags == get_default_flags(c)
        attr_names == (IF "multi" \in flags \/ "m" \in flags THEN <<>>
                       ELSE get_attribute_names(c)) \o <<get_data_name(c)>>
    IN {attr_names[i] : i \in {j \in 1..Len(attr_names) : hasAttr(nd, attr_names[j])}}


(***************************************************************************)
(* BaseData.get_data and what it calls (core.py:490-608, 627-635).  Each   *)
(* operator returns the scene after the call and a result: "data" (the     *)
(* compound handle), None, or the exception that ends the call.            *)
(***************************************************************************)
\* A pre_update_version that always asks for the update.
pre_update_version_always(auto) == TRUE

\* BaseData.pre_update_version: returns the global AUTO_UPDATE.
pre_update_version(auto) == auto

\* get_data, core.py:600-601: _add_data_to_records, post_create.
add_finish(s, n, ar) ==
    [s |-> [s EXCEPT ![n] = ar.nd],
     result |-> IF ar.ok THEN "data" ELSE "TypeError"]

\* get_data, core.py:599-601, cd the outcome of _create_data.
add_created(s, n, c, cv, cd) ==
    IF ~cd.ok THEN [s |-> [s EXCEPT ![n] = cd.nd], result |-> "RuntimeError"]
    ELSE add_finish(s, n, _add_data_to_records(cd.nd, c, cv))

\* get_data, core.py:598-601, nd1 the node after _get_records(node, True).
add_checked(s, n, c, cv, nd1) ==
    IF _find_attr_conflicts(nd1, c) # {}
    THEN [s |-> [s EXCEPT ![n] = nd1], result |-> "RuntimeError"]
    ELSE add_created(s, n, c, cv, _create_data(nd1, c))

\* get_data for a node without this class's record, force_add = True:
\* _get_records(node, True), _find_attr_conflicts, _create_data,
\* _add_data_to_records, post_create.
add_data_path(s, n, c, cv) ==
    add_checked(s, n, c, cv, _get_records(s[n], TRUE))

\* The name createNode gives a node asked to be called TRASH.
fresh_scratch(s) ==
    ScratchNames[CHOOSE i \in 1..Len(ScratchNames) :
                    /\ ScratchNames[i] \notin DOMAIN s
                    /\ \A j \in 1..(i - 1) : ScratchNames[j] \in DOMAIN s]

\* pm.delete(node)
delete_node(s, t) == [x \in DOMAIN s \ {t} |-> s[x]]

\* BaseData.create_node(name = 'TRASH'): createNode, cls(), then
\* get_data(pynode, force_add = True) on the new node.
create_node(s, t, c, cv) ==
    add_data_path(s @@ (t :> createNode(_DEFAULT_NODE_TYPE)), t, c, cv)

\* update_version, core.py:518-523: the copy back and the scratch delete.
update_restore(s2, n, t, c, back) ==
    IF ~back.ok
    THEN [s |-> s2, result |-> "RuntimeError", step |-> "copy_back"]
    ELSE [s |-> delete_node([s2 EXCEPT ![n] = back.nd], t), result |-> "True",
          step |-> "done"]

\* update_version, core.py:515-523, cr the outcome of _create_data.
update_rebuilt(s2, n, t, c, cr) ==
    IF ~cr.ok
    THEN [s |-> [s2 EXCEPT ![n] = cr.nd], result |-> "RuntimeError",
          step |-> "rebuild"]
    ELSE update_restore([s2 EXCEPT ![n] = cr.nd], n, t, c,
                        copyAttr(s2[t], cr.nd, get_attribute_names(c)))

\* update_version, core.py:512-523, del the outcome of pm.deleteAttr.
update_deleted(s2, n, t, c, del) ==
    IF ~del.ok THEN [s |-> s2, result |-> "RuntimeError", step |-> "delete"]
    ELSE update_rebuilt(s2, n, t, c, _create_data(del.nd, c))

\* update_version, core.py:502-523, cp the outcome of the first copyAttr.
update_copied(s1, n, t, c, cp) ==
    IF ~cp.ok
    THEN [s |-> delete_node(s1, t), result |-> "VersionUpdateException",
          step |-> "capture"]
    ELSE update_deleted([s1 EXCEPT ![t] = cp.nd], n, t, c,
                        deleteAttr(s1[n], get_data_name(c)))

\* update_version, core.py:500-523, cn the outcome of create_node.
update_created(n, t, c, cn) ==
    IF cn.result # "data"
    THEN [s |-> cn.s, result |-> cn.result, step |-> "create_node"]
    ELSE update_copied(cn.s, n, t, c,
                       copyAttr(cn.s[n], cn.s[t], get_attribute_names(c)))

\* BaseData.update_version on node n with scratch name t; result "True"
\* when it returns, step the step it ended in.
update_version(s, n, t, c, cv) ==
    update_created(n, t, c, create_node(s, t, c, cv))

\* self._node.attr(data_name): the handle, or MayaAttributeError.
node_attr(nd, name) ==
    IF name \in DOMAIN nd.attrs THEN "data" ELSE "MayaAttributeError"

NoCalls == [found |-> FALSE, stale |-> FALSE, pre |-> FALSE, upd |-> FALSE,
            post |-> FALSE, step |-> None, nodes |-> <<>>,
            conflicts |-> EmptyFn, version |-> <<>>, freed |-> NoRecord]

\* get_data, core.py:586-594, u the outcome of update_version: the record
\* version is set, post_update_version called, the handle returned.
get_updated(n, c, cv, i, u) ==
    IF u.result # "True"
    THEN [s |-> u.s, result |-> u.result, post |-> FALSE, step |-> u.step]
    ELSE [s |-> [u.s EXCEPT ![n] =
                    set_record_version(@, i, instance_version(c, cv))],
          result |-> node_attr(u.s[n], get_data_name(c)), post |-> TRUE,
          step |-> u.step]

\* get_data, core.py:576-594, for the record found at index i with
\* stale = (record.version < self.version) and handle the outcome of
\* self._node.attr(data_name).
get_found(s, n, c, cv, auto, i, stale, handle) ==
    [found |-> TRUE, stale |-> stale] @@
    (IF ~stale \/ handle # "data"
     THEN [s |-> s, result |-> handle, pre |-> FALSE, upd |-> FALSE,
           post |-> FALSE, step |-> None]
     ELSE IF ~pre_update_version(auto)
     THEN [s |-> s, result |-> handle, pre |-> TRUE, upd |-> FALSE,
           post |-> FALSE, step |-> None]
     ELSE [pre |-> TRUE, upd |-> TRUE] @@
          get_updated(n, c, cv, i,
                      update_version(s, n, fresh_scratch(s), c, cv)))

\* A get_data that adds the data whenever no record is found.
get_looked_up_always_adds(s, n, c, force_add, cv, auto, i) ==
    IF i # NoRecord
    THEN get_found(s, n, c, cv, auto, i,
                   TupleLess(Record(s[n].records[i].str).version,
                             instance_version(c, cv)),
                   node_attr(s[n], get_data_name(c)))
    ELSE NoCalls @@ add_data_path(s, n, c, cv)

\* get_data, core.py:569-608, i the outcome of get_record(node).
get_looked_up(s, n, c, force_add, cv, auto, i) ==
    IF i # NoRecord
    THEN get_found(s, n, c, cv, auto, i,
                   TupleLess(Record(s[n].records[i].str).version,
                             instance_version(c, cv)),
                   node_attr(s[n], get_data_name(c)))
    ELSE IF force_add
    THEN NoCalls @@ add_data_path(s, n, c, cv)
    ELSE NoCalls @@ [s |-> s, result |-> None]

\* BaseData.get_data(node, force_add).  Besides the scene and the result:
\* found (a record was found), stale (its version < the class version),
\* pre / upd / post (pre_update_version, update_version,
\* post_update_version were called).
get_data(s, n, c, force_add, cv, auto) ==
    get_looked_up(s, n, c, force_add, cv, auto, get_record(s[n], c))

\* The results with which get_data returns; any other is an exception.
Returned == {"data", None}

\* delete_data, core.py:622: pm.deleteAttr on the node without the element.
delete_tree(s, n, del) ==
    [s |-> [s EXCEPT ![n] = del.nd],
     result |-> IF del.ok THEN None ELSE "RuntimeError"]

\* delete_data, core.py:619-622, i the outcome of get_record(node).
delete_found(s, n, c, i) ==
    IF i = NoRecord THEN [s |-> s, result |-> None]
    ELSE delete_tree(s, n,
             deleteAttr([s[n] EXCEPT !.records =
                            [j \in DOMAIN s[n].records \ {i} |->
                                s[n].records[j]]],
                        get_data_name(c)))

\* BaseData.delete_data(node)
delete_data(s, n, c) == delete_found(s, n, c, get_record(s[n], c))

(***************************************************************************)
(* The scene at start: the host's saved scene, one node n1.  It is a       *)
(* transform or a network node and may carry data blocks written earlier   *)
(* (the persisted layout: one locked DataRecords element                   *)
(* "Name:Major.Minor.Patch" per block and the block's compound attribute). *)
(***************************************************************************)
Versions == {<<a, b, 0>> : a \in 0..MaxMajor, b \in 0..1}

\* The version saved blocks were written with.
SavedVersion == <<0, 1, 0>>

NodeTypes == {"transform", _DEFAULT_NODE_TYPE}

\* The tree tr of a saved block with its values, and the block's record.
SavedBlock(tr, c, version, i) ==
    [tr EXCEPT
        !.attrs = [a \in DOMAIN tr.attrs |->
                      IF IsUnder(tr, a, get_data_name(c))
                      THEN [tr.attrs[a] EXCEPT !.val = 1]
                      ELSE tr.attrs[a]],
        !.hasRecords = TRUE,
        !.records = (i :> [str |-> record_string(get_data_name(c),
                                                 version_string(version)),
                           locked |-> TRUE]) @@ @]

\* A node carrying a saved data block of class c at records index i.
LoadBlock(nd, c, attrs, version, i) ==
    SavedBlock(create_tree(nd, get_data_name(c), attrs).nd, c, version, i)

\* Can a block of class c have been added to node nd?
Addable(nd, c) ==
    \A i \in 1..Len(get_attribute_names(c)) :
        get_attribute_names(c)[i] \notin BuiltinAttrs(nd.type)

LoadedA(nd) ==
    {nd} \cup {LoadBlock(nd, "A", attrs, SavedVersion, i) :
                  attrs \in {get_attributes("A"), old_attributes("A")},
                  i \in 0..MaxIndex}

LoadedB(nd) ==
    {nd} \cup {LoadBlock(nd, "B", get_attributes("B"), SavedVersion, i) :
                  i \in IF Addable(nd, "B")
                        THEN (0..MaxIndex) \ DOMAIN nd.records ELSE {}}

SavedNodes ==
    UNION {UNION {LoadedB(x) : x \in LoadedA(createNode(type))}
           \cup {[createNode(type) EXCEPT !.hasRecords = TRUE]} :
             type \in NodeTypes}

NoInstanceNode == [node |-> None, records |-> FALSE]

\* The state after c().get_data(n, force_add) ended as r.
GetDataEnds(c, n, force_add, r) ==
    /\ scene' = r.s
    /\ inst' = IF r.result \in Returned THEN NoInstanceNode
               ELSE [node |-> n, records |-> ~r.found /\ force_add]
    /\ last' = [op |-> "get_data", cls |-> c, node |-> n,
                force_add |-> force_add, result |-> r.result,
                found |-> r.found, stale |-> r.stale, pre |-> r.pre,
                upd |-> r.upd, post |-> r.post, step |-> r.step] @@ NoCalls

\* c().get_data(n, force_add): `inst` is the _node and _records of the
\* instance when the call has ended.
GetData(c, n, force_add) ==
    /\ n \in DOMAIN scene
    /\ (Cardinality(DOMAIN scene \ LiveNodes) < MaxScratch
        \/ get_record(scene[n], c) = NoRecord \/ ~AUTO_UPDATE) = TRUE
    /\ GetDataEnds(c, n, force_add,
                   get_data(scene, n, c, force_add, cls_version, AUTO_UPDATE))
    /\ UNCHANGED <<cls_version, AUTO_UPDATE, compoundVars, unitVars>>

\* The state after c().delete_data(n) ended as r; freed is the index of
\* the records element the call removed (NoRecord if it found none).
DeleteDataEnds(c, n, r) ==
    /\ scene' = r.s
    /\ last' = [op |-> "delete_data", cls |-> c, node |-> n,
                force_add |-> FALSE, result |-> r.result,
                freed |-> get_record(scene[n], c)] @@ NoCalls

\* c().delete_data(n)
DeleteData(c, n) ==
    /\ n \in DOMAIN scene
    /\ DeleteDataEnds(c, n, delete_data(scene, n, c))
    /\ UNCHANGED <<cls_version, AUTO_UPDATE, inst, compoundVars, unitVars>>

\* BaseData.set_class_version(version) on class c
SetClassVersion(c, v) ==
    /\ cls_version' = [cls_version EXCEPT ![c] = v]
    /\ last' = NoCalls @@ [op |-> "set_class_version", cls |-> c,
                           node |-> None, force_add |-> FALSE, result |-> None]
    /\ UNCHANGED <<scene, AUTO_UPDATE, inst, compoundVars, unitVars>>

\* user_data.AUTO_UPDATE = b
SetAutoUpdate(b) ==
    /\ AUTO_UPDATE' = b
    /\ last' = NoCalls @@ [op |-> "set_auto_update", cls |-> None,
                           node |-> None, force_add |-> FALSE, result |-> None]
    /\ UNCHANGED <<scene, cls_version, inst, compoundVars, unitVars>>

(***************************************************************************)
(* Utils (core.py:642-728).                                                *)
(***************************************************************************)
\* Utils.get_classes: BaseData.__subclasses__(), in definition order.
get_classes == <<"A", "B">>

\* The names BaseData and its subclasses define (core.py:241-635).
BaseDataNames ==
    {"attributes", "_version", "get_class_version", "set_class_version",
     "get_version_string", "version", "pre_update_version", "update_version",
     "post_update_version", "_clear_invalid_flags", "get_default_flags",
     "_add_data_to_records", "_create_records", "_get_records", "get_records",
     "_get_record_by_name", "get_record_by_name", "get_record",
     "_find_attr_conflicts", "add_attr", "_get_attribute_names",
     "get_attribute_names", "_init_class_attributes", "get_attributes",
     "get_data_name", "_create_data", "post_create", "get_data", "add_data",
     "delete_data", "create_node"}

\* find_attribute_conflicts, core.py:676-680: the classes declaring each
\* name, over the first k classes of cs.
RECURSIVE declaring(_, _, _)
declaring(cs, k, name) ==
    IF k = 0 THEN <<>>
    ELSE declaring(cs, k - 1, name) \o
         [i \in 1..Len(SelectSeq(get_attribute_names(cs[k]),
                                 LAMBDA x : x = name)) |-> cs[k]]

\* find_attribute_conflicts, core.py:682-696, attrs the mapping built by
\* the loop over the classes.
conflicts_found(attrs, error_on_conflict) ==
    LET conflicts == [a \in {x \in DOMAIN attrs : Len(attrs[x]) > 1} |->
                         attrs[a]]
    IN [conflicts |-> conflicts,
        result |-> IF DOMAIN conflicts # {} /\ error_on_conflict
                   THEN "RuntimeError" ELSE "conflicts"]

\* Utils.find_attribute_conflicts(error_on_conflict): the loop calls
\* subclass.GetDefaultFlags() and subclass.GetAttributeNames().
find_attribute_conflicts(error_on_conflict) ==
    LET cs == SelectSeq(get_classes,
                        LAMBDA c : ~("m" \in get_default_flags(c)
                                     \/ "multi" \in get_default_flags(c)))
        names == UNION {Range(get_attribute_names(cs[k])) : k \in 1..Len(cs)}
    IN IF Len(get_classes) > 0
          /\ ~({"GetDefaultFlags", "GetAttributeNames"} \subseteq BaseDataNames)
       THEN [conflicts |-> EmptyFn, result |-> "AttributeError"]
       ELSE conflicts_found([a \in names |-> declaring(cs, Len(cs), a)],
                            error_on_conflict)

\* Utils.find_attribute_conflicts(error_on_conflict)
FindAttributeConflicts(error_on_conflict) ==
    /\ last' = [op |-> "find_attribute_conflicts", cls |-> None,
                node |-> None, force_add |-> error_on_conflict,
                result |-> find_attribute_conflicts(error_on_conflict).result,
                conflicts |->
                    find_attribute_conflicts(error_on_conflict).conflicts]
               @@ NoCalls
    /\ UNCHANGED <<scene, cls_version, AUTO_UPDATE, inst, compoundVars,
                   unitVars>>

\* The order nodes.sort() gives the node names.
NodeOrder == <<"TRASH", "TRASH1", "TRASH2", "n1">>

\* pm.ls() followed by nodes.sort()
sorted_ls(s) ==
    SelectSeq(NodeOrder, LAMBDA n : n \in DOMAIN s)

\* BaseData.get_records(node): the DataRecords attribute or None; the
\* attribute is true in a condition when it exists.
get_records(nd) == _get_records(nd, FALSE).hasRecords

\* BaseData.get_record_by_name(node, data_name): a Record or None.
get_record_by_name(nd, data_name) ==
    _get_record_by_name(nd, data_name) # NoRecord

\* Utils.get_nodes_with_data(data_class)
get_nodes_with_data(s, data_class) ==
    SelectSeq(sorted_ls(s),
              LAMBDA n : IF data_class # None
                         THEN get_record_by_name(s[n],
                                                 get_data_name(data_class))
                         ELSE get_records(s[n]))

\* Utils.get_nodes_with_data(data_class) on every node of the scene
GetNodesWithData(data_class) ==
    /\ last' = [op |-> "get_nodes_with_data", cls |-> data_class,
                node |-> None, force_add |-> FALSE, result |-> None,
                nodes |-> get_nodes_with_data(scene, data_class)] @@ NoCalls
    /\ UNCHANGED <<scene, cls_version, AUTO_UPDATE, inst, compoundVars,
                   unitVars>>

NextScene ==
    \/ \E c \in Classes, n \in LiveNodes, force_add \in BOOLEAN :
          GetData(c, n, force_add)
    \/ \E c \in Classes, n \in LiveNodes : DeleteData(c, n)
    \/ \E c \in Classes, v \in Versions : SetClassVersion(c, v)
    \/ \E b \in BOOLEAN : SetAutoUpdate(b)

NoLast == NoCalls @@ [op |-> "none", cls |-> None, node |-> None,
                      force_add |-> FALSE, result |-> None]

NoCompoundCall == [op |-> "none", obj |-> 0, ok |-> TRUE, k |-> NotGiven,
                   make |-> TRUE, name |-> None, attr_type |-> None,
                   flags |-> {}]

Init ==
    /\ scene \in {("n1" :> nd) : nd \in SavedNodes}
    /\ cls_version = [c \in Classes |-> <<0, 0, 0>>]
    /\ AUTO_UPDATE = FALSE
    /\ inst = NoInstanceNode
    /\ last = NoLast
    /\ heap = [l \in {DefaultList} |-> <<>>]
    /\ compounds = <<>>
    /\ clast = NoCompoundCall
    /\ indices = <<>>
    /\ idx = NoRecord
    /\ tree = <<>>
    /\ name_list = <<>>
    /\ rt = <<>>
    /\ fl = <<>>
    /\ own = <<>>
    /\ calls = <<>>

Next == NextScene

\* The data-block operations on a scene.
Spec == Init /\ [][Next]_vars

InitCompound ==
    /\ scene = ("n1" :> createNode(_DEFAULT_NODE_TYPE))
    /\ cls_version = [c \in Classes |-> <<0, 0, 0>>]
    /\ AUTO_UPDATE = FALSE
    /\ inst = NoInstanceNode
    /\ last = NoLast
    /\ heap = [l \in {DefaultList} |-> <<>>]
    /\ compounds = <<>>
    /\ clast = NoCompoundCall
    /\ indices = <<>>
    /\ idx = NoRecord
    /\ tree = <<>>
    /\ name_list = <<>>
    /\ rt = <<>>
    /\ fl = <<>>
    /\ own = <<>>
    /\ calls = <<>>

\* Constructing and using Compound descriptors.
SpecCompound == InitCompound /\ [][NextCompound]_vars

(***************************************************************************)
(* Adding and deleting data blocks together with the Utils queries.        *)
(***************************************************************************)
InitUtils ==
    /\ scene \in {("n1" :> nd) : nd \in SavedNodes}
    /\ cls_version = [c \in Classes |-> <<0, 0, 0>>]
    /\ AUTO_UPDATE = FALSE
    /\ inst = NoInstanceNode
    /\ last = NoLast
    /\ heap = [l \in {DefaultList} |-> <<>>]
    /\ compounds = <<>>
    /\ clast = NoCompoundCall
    /\ indices = <<>>
    /\ idx = NoRecord
    /\ tree = <<>>
    /\ name_list = <<>>
    /\ rt = <<>>
    /\ fl = <<>>
    /\ own = <<>>
    /\ calls = <<>>

NextUtils ==
    \/ \E c \in Classes, n \in LiveNodes, force_add \in BOOLEAN :
          GetData(c, n, force_add)
    \/ \E c \in Classes, n \in LiveNodes : DeleteData(c, n)
    \/ \E data_class \in Classes \cup {None} : GetNodesWithData(data_class)
    \/ \E error_on_conflict \in BOOLEAN :
          FindAttributeConflicts(error_on_conflict)

SpecUtils == InitUtils /\ [][NextUtils]_vars

(***************************************************************************)
(* The data-block operations together with the Record version setter used  *)
(* directly on a node's record.  The classes are at version 1.0.0, so the   *)
(* blocks of the saved scene are stale.                                    *)
(***************************************************************************)
InitRecord ==
    /\ scene \in {("n1" :> nd) : nd \in SavedNodes}
    /\ cls_version = [c \in Classes |-> <<1, 0, 0>>]
    /\ AUTO_UPDATE = FALSE
    /\ inst = NoInstanceNode
    /\ last = NoLast
    /\ heap = [l \in {DefaultList} |-> <<>>]
    /\ compounds = <<>>
    /\ clast = NoCompoundCall
    /\ indices = <<>>
    /\ idx = NoRecord
    /\ tree = <<>>
    /\ name_list = <<>>
    /\ rt = <<>>
    /\ fl = <<>>
    /\ own = <<>>
    /\ calls = <<>>

\* c.get_record(n).version = v
SetRecordVersion(c, n, v) ==
    /\ n \in DOMAIN scene
    /\ get_record(scene[n], c) # NoRecord
    /\ scene' = [scene EXCEPT ![n] =
                    set_record_version(@, get_record(scene[n], c), v)]
    /\ last' = [op |-> "set_version", cls |-> c, node |-> n,
                force_add |-> FALSE, result |-> None, version |-> v]
               @@ NoCalls
    /\ UNCHANGED <<cls_version, AUTO_UPDATE, inst, compoundVars, unitVars>>

\* The version the setter is called with.
SetterVersions == {<<1, 1, 0>>}

NextRecord ==
    \/ \E c \in Classes, n \in LiveNodes, force_add \in BOOLEAN :
          GetData(c, n, force_add)
    \/ \E c \in Classes, n \in LiveNodes : DeleteData(c, n)
    \/ \E b \in BOOLEAN : SetAutoUpdate(b)
    \/ \E c \in Classes, n \in LiveNodes, v \in SetterVersions :
          SetRecordVersion(c, n, v)

SpecRecord == InitRecord /\ [][NextRecord]_vars

(***************************************************************************)
(* Index allocation alone: `indices` is what getArrayIndices() returns for *)
(* a DataRecords array, `idx` the index _add_data_to_records picks for it. *)
(***************************************************************************)
InitAlloc ==
    /\ scene = ("n1" :> createNode(_DEFAULT_NODE_TYPE))
    /\ cls_version = [c \in Classes |-> <<0, 0, 0>>]
    /\ AUTO_UPDATE = FALSE
    /\ inst = NoInstanceNode
    /\ last = NoLast
    /\ heap = [l \in {DefaultList} |-> <<>>]
    /\ compounds = <<>>
    /\ clast = NoCompoundCall
    /\ indices \in {SortedSeq(S) : S \in SUBSET (0..MaxAllocIndex)}
    /\ idx = NoRecord
    /\ tree = <<>>
    /\ name_list = <<>>
    /\ rt = <<>>
    /\ fl = <<>>
    /\ own = <<>>
    /\ calls = <<>>

\* core.py:335-346
Allocate ==
    /\ idx = NoRecord
    /\ idx' = choose_index(indices)
    /\ UNCHANGED <<indices, sceneVars, compoundVars, flattenVars, rt, fl,
                   cacheVars>>

\* pm.removeMultiInstance on element i (delete_data, core.py:621)
RemoveIndex(i) ==
    /\ i \in Range(indices)
    /\ indices' = SortedSeq(Range(indices) \ {i})
    /\ idx' = NoRecord
    /\ UNCHANGED <<sceneVars, compoundVars, flattenVars, rt, fl, cacheVars>>

NextAlloc == Allocate \/ \E i \in 0..MaxAllocIndex : RemoveIndex(i)

SpecAlloc == InitAlloc /\ [][NextAlloc]_vars

(***************************************************************************)
(* Flattening alone: `tree` is the descriptor list a class's               *)
(* get_attributes() builds, one descriptor at a time, and `name_list` what *)
(* get_attribute_names() returns for it (None before the call).            *)
(***************************************************************************)
MaxNodes == 5

\* The name of the k-th descriptor created.
DescriptorNames == <<"a", "b", "c", "d", "e", "f", "g", "h", "i", "j">>

\* How many descriptors the list holds, children included.
RECURSIVE NodeCount(_)
NodeCount(lst) ==
    IF Len(lst) = 0 THEN 0
    ELSE 1 + NodeCount(Head(lst).children) + NodeCount(Tail(lst))

\* The paths to the children lists in lst: <<>> is lst itself, <<i>> \o p
\* the list at p under the Compound lst[i].
RECURSIVE ListPaths(_)
ListPaths(lst) ==
    {<<>>} \cup
    UNION {{<<i>> \o p : p \in ListPaths(lst[i].children)} :
              i \in {j \in 1..Len(lst) : lst[j].kind = "Compound"}}

\* lst after add_child(d) on the Compound at path (append for <<>>).
RECURSIVE AddAt(_, _, _)
AddAt(lst, path, d) ==
    IF Len(path) = 0 THEN Append(lst, d)
    ELSE [lst EXCEPT ![Head(path)].children = AddAt(@, Tail(path), d)]

\* The descriptor Attr(name, 'float'), Compound(name, 'compound', []) or
\* Compound(name, 'float3').
NewDescriptor(kind, name) ==
    IF kind = "float" THEN LeafAttr(Attr(name, "float", {}))
    ELSE CompoundAttr(name, kind)

InitFlatten ==
    /\ scene = ("n1" :> createNode(_DEFAULT_NODE_TYPE))
    /\ cls_version = [c \in Classes |-> <<0, 0, 0>>]
    /\ AUTO_UPDATE = FALSE
    /\ inst = NoInstanceNode
    /\ last = NoLast
    /\ heap = [l \in {DefaultList} |-> <<>>]
    /\ compounds = <<>>
    /\ clast = NoCompoundCall
    /\ indices = <<>>
    /\ idx = NoRecord
    /\ tree = <<>>
    /\ name_list = None
    /\ rt = <<>>
    /\ fl = <<>>
    /\ own = <<>>
    /\ calls = <<>>

\* get_attributes() adds one descriptor: to the list it returns, or with
\* add_child to a Compound already in it.
AddDescriptor(path, kind) ==
    /\ NodeCount(tree) + NodeCount(<<NewDescriptor(kind, "a")>>) <= MaxNodes
    /\ path \in ListPaths(tree)
    /\ tree' = AddAt(tree, path,
                     NewDescriptor(kind, DescriptorNames[NodeCount(tree) + 1]))
    /\ name_list' = None
    /\ UNCHANGED <<sceneVars, compoundVars, allocVars, rt, fl, cacheVars>>

\* cls.get_attribute_names() with cls.attributes = tree
GetAttributeNames ==
    /\ name_list' = names_of_list(tree)
    /\ UNCHANGED <<tree, sceneVars, compoundVars, allocVars, rt, fl,
                   cacheVars>>

NextFlatten ==
    \/ \E path \in ListPaths(tree), kind \in {"float", "compound", "float3"} :
            AddDescriptor(path, kind)
    \/ GetAttributeNames

SpecFlatten == InitFlatten /\ [][NextFlatten]_vars

(***************************************************************************)
(* The record string alone: `rt` holds a data name and a version tuple,    *)
(* the string written for them, and the Record read back from the string.  *)
(***************************************************************************)
MaxPart == 10

NoRecordRead == [name |-> <<>>, version |-> <<>>]

NoRoundTrip == [stage |-> "none", name |-> None, version |-> <<>>,
                str |-> <<>>, rec |-> NoRecordRead]

InitRoundTrip ==
    /\ scene = ("n1" :> createNode(_DEFAULT_NODE_TYPE))
    /\ cls_version = [c \in Classes |-> <<0, 0, 0>>]
    /\ AUTO_UPDATE = FALSE
    /\ inst = NoInstanceNode
    /\ last = NoLast
    /\ heap = [l \in {DefaultList} |-> <<>>]
    /\ compounds = <<>>
    /\ clast = NoCompoundCall
    /\ indices = <<>>
    /\ idx = NoRecord
    /\ tree = <<>>
    /\ name_list = <<>>
    /\ rt = NoRoundTrip
    /\ fl = <<>>
    /\ own = <<>>
    /\ calls = <<>>

\* '{0}:{1}'.format(name, '.'.join(map(str, version)))
WriteRecordString(name, version) ==
    /\ rt.stage = "none"
    /\ rt' = [stage |-> "written", name |-> name, version |-> version,
              str |-> record_string(name, version_string(version)),
              rec |-> NoRecordRead]
    /\ UNCHANGED <<sceneVars, compoundVars, allocVars, flattenVars, fl,
                   cacheVars>>

\* Record(attr) for an element holding the string
ReadRecord ==
    /\ rt.stage = "written"
    /\ rt' = [rt EXCEPT !.stage = "read", !.rec = Record(rt.str)]
    /\ UNCHANGED <<sceneVars, compoundVars, allocVars, flattenVars, fl,
                   cacheVars>>

NextRoundTrip ==
    \/ \E name \in Classes,
          version \in [1..3 -> 0..MaxPart] : WriteRecordString(name, version)
    \/ ReadRecord

SpecRoundTrip == InitRoundTrip /\ [][NextRoundTrip]_vars

(***************************************************************************)
(* Creation flags alone: `fl` is an Attr descriptor's or a data-block      *)
(* instance's _flags, from construction to its use on a node.              *)
(***************************************************************************)
\* BaseData._clear_invalid_flags, core.py:317-322
BaseDataInvalidFlags ==
    {"longName", "ln", "attribute", "at", "dataType", "dt", "p", "parent",
     "numberOfchildren", "nc"}

BaseData_clear_invalid_flags(flags) == flags \ BaseDataInvalidFlags

\* BaseData.__init__(**kwargs): the instance's _flags.
BaseData_init_flags(c, kwargs) ==
    BaseData_clear_invalid_flags(get_default_flags(c) \cup kwargs)

\* add_attr, core.py:438-439: the descriptor's _flags after the call.
add_attr_flags(flags, parent_name) ==
    IF parent_name # "" THEN flags \cup {"parent"} ELSE flags

\* The keyword arguments callers pass.
FlagArgs ==
    {"longName", "ln", "attributeType", "at", "dataType", "dt", "parent", "p",
     "numberOfChildren", "nc", "keyable"}

NoFlags == [stage |-> "none", kind |-> None, given |-> {}, flags |-> {}]

InitFlags ==
    /\ scene = ("n1" :> createNode(_DEFAULT_NODE_TYPE))
    /\ cls_version = [c \in Classes |-> <<0, 0, 0>>]
    /\ AUTO_UPDATE = FALSE
    /\ inst = NoInstanceNode
    /\ last = NoLast
    /\ heap = [l \in {DefaultList} |-> <<>>]
    /\ compounds = <<>>
    /\ clast = NoCompoundCall
    /\ indices = <<>>
    /\ idx = NoRecord
    /\ tree = <<>>
    /\ name_list = <<>>
    /\ rt = <<>>
    /\ fl = NoFlags
    /\ own = <<>>
    /\ calls = <<>>

\* Attr('x', 'float', **kwargs)
NewAttr(kwargs) ==
    /\ fl.stage = "none"
    /\ fl' = [stage |-> "constructed", kind |-> "Attr", given |-> kwargs,
              flags |-> Attr("x", "float", kwargs).flags]
    /\ UNCHANGED <<sceneVars, compoundVars, allocVars, flattenVars, rt,
                   cacheVars>>

\* c(**kwargs) for a data-block class c
NewData(c, kwargs) ==
    /\ fl.stage = "none"
    /\ fl' = [stage |-> "constructed", kind |-> "BaseData", given |-> kwargs,
              flags |-> BaseData_init_flags(c, kwargs)]
    /\ UNCHANGED <<sceneVars, compoundVars, allocVars, flattenVars, rt,
                   cacheVars>>

\* The descriptor is created on a node as a child of the data compound
\* (add_attr), or the instance's compound is (_create_data).
Materialize ==
    /\ fl.stage = "constructed"
    /\ fl' = [fl EXCEPT !.stage = "materialized",
                        !.flags = IF fl.kind = "Attr"
                                  THEN add_attr_flags(@, "A") ELSE @]
    /\ UNCHANGED <<sceneVars, compoundVars, allocVars, flattenVars, rt,
                   cacheVars>>

NextFlags ==
    \/ \E kwargs \in SUBSET FlagArgs : NewAttr(kwargs)
    \/ \E c \in Classes, kwargs \in SUBSET FlagArgs : NewData(c, kwargs)
    \/ Materialize

SpecFlags == InitFlags /\ [][NextFlags]_vars

(***************************************************************************)
(* The class-level descriptor lists alone: own[c] is the `attributes`      *)
(* attribute set on class c itself, calls[c] how often c was used (an      *)
(* instance made or its names asked for) and how often c.get_attributes()  *)
(* ran.                                                                    *)
(***************************************************************************)
MaxUses == 2

LazyClasses == {"P", "Q", "R", "E"}

\* The class c derives from.
base(c) ==
    CASE c = "Q" -> "P"
      [] c = "R" -> "Q"
      [] OTHER -> "BaseData"

\* cls.attributes: the attribute of the first class in the MRO that has
\* it; BaseData.attributes is [] (core.py:262).
RECURSIVE class_attributes(_, _)
class_attributes(o, c) ==
    IF c = "BaseData" THEN <<>>
    ELSE IF o[c].set THEN o[c].val
    ELSE class_attributes(o, base(c))

\* BaseData._init_class_attributes on class c: own and the number of
\* get_attributes() calls after it.
_init_class_attributes(o, k, c) ==
    IF Len(class_attributes(o, c)) = 0
    THEN [own |-> [o EXCEPT ![c] = [set |-> TRUE, val |-> get_attributes(c)]],
          calls |-> [k EXCEPT ![c].gets = @ + 1]]
    ELSE [own |-> o, calls |-> k]

InitLazy ==
    /\ scene = ("n1" :> createNode(_DEFAULT_NODE_TYPE))
    /\ cls_version = [c \in Classes |-> <<0, 0, 0>>]
    /\ AUTO_UPDATE = FALSE
    /\ inst = NoInstanceNode
    /\ last = NoLast
    /\ heap = [l \in {DefaultList} |-> <<>>]
    /\ compounds = <<>>
    /\ clast = NoCompoundCall
    /\ indices = <<>>
    /\ idx = NoRecord
    /\ tree = <<>>
    /\ name_list = <<>>
    /\ rt = <<>>
    /\ fl = <<>>
    /\ own = [c \in LazyClasses |-> [set |-> FALSE, val |-> <<>>]]
    /\ calls = [c \in LazyClasses |-> [uses |-> 0, gets |-> 0]]

\* c() or c.get_attribute_names(): both call c._init_class_attributes().
UseClass(c) ==
    /\ calls[c].uses < MaxUses
    /\ own' = _init_class_attributes(own, calls, c).own
    /\ calls' = [_init_class_attributes(own, calls, c).calls
                    EXCEPT ![c].uses = @ + 1]
    /\ UNCHANGED <<sceneVars, compoundVars, allocVars, flattenVars, rt, fl>>

NextLazy == \E c \in LazyClasses : UseClass(c)

SpecLazy == InitLazy /\ [][NextLazy]_vars

(***************************************************************************)
(* The claims.                                                             *)
(***************************************************************************)
\* The step is c().get_data(n, force_add).
IsGetData(c, n, force_add) ==
    /\ last'.op = "get_data" /\ last'.cls = c /\ last'.node = n
    /\ last'.force_add = force_add

\* The record of class c on node nd is older than the class, by the order
\* on (major, minor, patch).
StaleOn(nd, c) ==
    LET i == get_record(nd, c)
        rv == Record(nd.records[i].str).version
        v == cls_version[c]
    IN /\ i # NoRecord
       /\ \/ rv[1] < v[1]
          \/ rv[1] = v[1] /\ rv[2] < v[2]
          \/ rv[1] = v[1] /\ rv[2] = v[2] /\ rv[3] < v[3]

\* The text "<DataName>:<Major>.<Minor>.<Patch>" of class c's version.
RecordText(c) ==
    <<c, ":">> \o IntToChars(cls_version[c][1]) \o <<".">> \o
    IntToChars(cls_version[c][2]) \o <<".">> \o IntToChars(cls_version[c][3])

\* C1: get_data(node, force_add = True) on a node with no record of the
\* class and no conflicting attribute name completes and leaves the node
\* with the records array, the class's compound attribute and schema, and a
\* locked record "<DataName>:<version>" that get_record then finds.
C1_AddCompletes ==
    [][\A c \in Classes, n \in LiveNodes :
          (/\ IsGetData(c, n, TRUE)
           /\ get_record(scene[n], c) = NoRecord
           /\ _find_attr_conflicts(scene[n], c) = {})
          => /\ last'.result = "data"
             /\ scene'[n].hasRecords
             /\ get_data_name(c) \in DOMAIN scene'[n].attrs
             /\ Range(get_attribute_names(c)) \subseteq DOMAIN scene'[n].attrs
             /\ get_record(scene'[n], c) # NoRecord
             /\ scene'[n].records[get_record(scene'[n], c)]
                  = [str |-> RecordText(c), locked |-> TRUE]]_vars

\* C2: get_data(node, force_add = False) on a node with no record of the
\* class returns None and changes nothing on the node.
C2_AbsentNoMutation ==
    [][\A c \in Classes, n \in LiveNodes :
          (IsGetData(c, n, FALSE) /\ get_record(scene[n], c) = NoRecord)
          => (last'.result = None /\ scene' = scene)]_vars

C2_Witness ==
    /\ last.op = "get_data" /\ ~last.force_add /\ ~last.found
    /\ last.result = None
    /\ ~scene[last.node].hasRecords

C4_ConflictNoPartialState ==
    [][\A c \in Classes, n \in LiveNodes :
          (/\ IsGetData(c, n, TRUE)
           /\ get_record(scene[n], c) = NoRecord
           /\ _find_attr_conflicts(scene[n], c) # {})
          => (last'.result = "RuntimeError" /\ scene' = scene)]_vars

\* C5: when get_data finds a stale record, pre_update_version returns true
\* and the node's tree has every name of the current schema, the migration
\* keeps every leaf value and ends with the record at the class version.
C5_MigrationPreserves ==
    [][\A c \in Classes, n \in LiveNodes :
          (/\ \E f \in BOOLEAN : IsGetData(c, n, f)
           /\ StaleOn(scene[n], c)
           /\ AUTO_UPDATE
           /\ Range(get_attribute_names(c)) \subseteq DOMAIN scene[n].attrs)
          => /\ last'.result = "data"
             /\ \A a \in Range(get_attribute_names(c)) :
                   /\ a \in DOMAIN scene'[n].attrs
                   /\ scene'[n].attrs[a].val = scene[n].attrs[a].val
             /\ Record(scene'[n].records[get_record(scene'[n], c)].str).version
                  = cls_version[c]]_vars

\* C6: when the copy from the live node to the scratch node fails (a name
\* of the current schema is missing on the live node), the migration ends
\* in VersionUpdateException, the scratch node is deleted and the live node
\* is exactly as it was.
C6_CaptureFailureAborts ==
    [][\A c \in Classes, n \in LiveNodes :
          (/\ \E f \in BOOLEAN : IsGetData(c, n, f)
           /\ StaleOn(scene[n], c)
           /\ AUTO_UPDATE
           /\ get_data_name(c) \in DOMAIN scene[n].attrs
           /\ ~(Range(get_attribute_names(c)) \subseteq DOMAIN scene[n].attrs))
          => /\ last'.result = "VersionUpdateException"
             /\ DOMAIN scene' = DOMAIN scene
             /\ scene'[n] = scene[n]]_vars

\* C7: when get_data finds a stale record and pre_update_version returns
\* false, update_version and post_update_version are not called, the node is
\* unchanged and get_data returns the existing compound handle.
C7_StaleNoUpdate ==
    [][\A c \in Classes, n \in LiveNodes :
          (/\ \E f \in BOOLEAN : IsGetData(c, n, f)
           /\ StaleOn(scene[n], c)
           /\ ~AUTO_UPDATE)
          => /\ ~last'.upd /\ ~last'.post
             /\ scene' = scene
             /\ last'.result = "data"]_vars

C7_Witness ==
    /\ last.op = "get_data" /\ last.found /\ last.stale /\ last.pre
    /\ ~last.upd /\ last.result = "data" /\ ~AUTO_UPDATE

\* C8 as stated: get_data attempts a migration exactly when the record
\* version is less than the class version in lexicographic order; otherwise
\* it returns the existing handle and changes nothing.
C8_MigratesIffStale ==
    [][\A c \in Classes, n \in LiveNodes :
          (/\ \E f \in BOOLEAN : IsGetData(c, n, f)
           /\ get_record(scene[n], c) # NoRecord)
          => /\ last'.upd <=> StaleOn(scene[n], c)
             /\ ~StaleOn(scene[n], c)
                  => (scene' = scene /\ last'.result = "data")]_vars

\* C8 amended: get_data calls pre_update_version exactly when the record
\* version is less than the class version in lexicographic order, and
\* attempts the migration exactly when pre_update_version then returns
\* true; when the record version is equal or greater it returns the
\* existing handle and changes nothing.
C8_MigratesIffStaleAndAllowed ==
    [][\A c \in Classes, n \in LiveNodes :
          (/\ \E f \in BOOLEAN : IsGetData(c, n, f)
           /\ get_record(scene[n], c) # NoRecord)
          => /\ last'.pre <=> StaleOn(scene[n], c)
             /\ last'.upd <=> (StaleOn(scene[n], c) /\ AUTO_UPDATE)
             /\ ~StaleOn(scene[n], c)
                  => (scene' = scene /\ last'.result = "data")]_vars

C8_Witness ==
    /\ last.op = "get_data" /\ last.found /\ last.stale /\ last.upd
    /\ cls_version[last.cls] = <<1, 0, 0>>
    /\ Record(scene[last.node].records[get_record(scene[last.node], last.cls)].str).version
         = <<0, 1, 0>>

\* The fixed-arity compound types.
FixedArity == {t \in DOMAIN compound_types : compound_types[t] \in {2, 3}}

\* C9: a Compound of a fixed-arity type passes validate() exactly when it
\* holds exactly N children, however they got there.
C9_ValidateArity ==
    (clast.op = "validate" /\ clast.attr_type \in FixedArity) =>
       LET held == Len(heap[compounds[clast.obj].children])
           N == compound_types[clast.attr_type]
       IN /\ held < N => ~clast.ok
          /\ held > N => ~clast.ok
          /\ held = N => clast.ok

C9_Witness ==
    /\ clast.op = "validate" /\ clast.attr_type = "spectrum" /\ ~clast.ok
    /\ Len(heap[compounds[clast.obj].children]) = 4

\* The names the children of a Compound made without explicit children
\* are to have.
ExpectedChildren(name, attr_type, flags) ==
    [i \in 1..compound_types[attr_type] |->
        name \o (IF "usedAsColor" \in flags \/ "uac" \in flags
                    \/ attr_type \in {"spectrum", "reflectance"}
                 THEN <<"R", "G", "B">> ELSE <<"X", "Y", "Z">>)[i]]

\* C10: every construction of a fixed-arity Compound without explicit
\* children yields exactly N children named {name}X/Y/Z, or {name}R/G/B for
\* a color, at any point in any sequence of constructions.
C10_AutoChildren ==
    (/\ clast.op = "new" /\ clast.k = NotGiven /\ clast.make
     /\ clast.attr_type \in FixedArity)
    => /\ clast.ok
       /\ [i \in 1..Len(heap[compounds[clast.obj].children]) |->
              heap[compounds[clast.obj].children][i].name]
            = ExpectedChildren(clast.name, clast.attr_type, clast.flags)

\* C13: after every get_data / add_data call has ended, by returning or in
\* an error, the instance's _node and _records are cleared.
C13_InstanceCleared ==
    last.op = "get_data" => inst = NoInstanceNode

\* The names of the nodes in S in the order of their names.
InNameOrder(S) ==
    CHOOSE q \in [1..Cardinality(S) -> S] :
        /\ \A n \in S : \E i \in 1..Cardinality(S) : q[i] = n
        /\ \A i, j \in 1..Cardinality(S) :
              i < j => \E a, b \in 1..Len(NodeOrder) :
                          a < b /\ NodeOrder[a] = q[i] /\ NodeOrder[b] = q[j]

\* The names of the records node nd holds.
RecordNames(nd) ==
    {Record(nd.records[i].str).name : i \in DOMAIN nd.records}

\* C14: get_nodes_with_data() returns, sorted by node name, exactly the
\* nodes whose records array holds at least one record, and
\* get_nodes_with_data(C) exactly the nodes holding a record named C.
C14_NodesWithData ==
    last.op = "get_nodes_with_data" =>
       last.nodes =
          InNameOrder({n \in DOMAIN scene :
                          IF last.cls = None THEN RecordNames(scene[n]) # {}
                          ELSE NameChars(get_data_name(last.cls))
                                  \in RecordNames(scene[n])})

\* The classes not marked multi-instance that declare attribute name a.
Declarers(a) ==
    {c \in Classes :
        /\ ~("m" \in get_default_flags(c) \/ "multi" \in get_default_flags(c))
        /\ a \in Range(get_attribute_names(c))}

\* C15: find_attribute_conflicts returns exactly the names declared by two
\* or more classes not marked multi-instance, each mapped to the classes
\* declaring it; it raises the fatal error when that is non-empty and
\* error_on_conflict is true, and returns the mapping otherwise.
C15_ConflictsReported ==
    last.op = "find_attribute_conflicts" =>
       LET shared == {a \in UNION {Range(get_attribute_names(c)) :
                                      c \in Classes} :
                         Cardinality(Declarers(a)) > 1}
       IN IF shared # {} /\ last.force_add
          THEN last.result = "RuntimeError"
          ELSE /\ last.result = "conflicts"
               /\ DOMAIN last.conflicts = shared
               /\ \A a \in shared : Range(last.conflicts[a]) = Declarers(a)

\* C19: whenever update_version has ended, by returning or by raising at
\* any of its steps, the scratch node it created is no longer in the scene.
C19_ScratchNeverOutlives ==
    [][\A c \in Classes, n \in LiveNodes :
          ((\E f \in BOOLEAN : IsGetData(c, n, f)) /\ last'.upd)
          => DOMAIN scene' = DOMAIN scene]_vars

\* C20: a migration deletes and rebuilds the live attribute tree before the
\* copy back: every update_version whose capture copy can succeed reaches
\* the copy-back step with the live tree rebuilt.
C20_RebuiltBeforeCopyBack ==
    [][\A c \in Classes, n \in LiveNodes :
          (/\ \E f \in BOOLEAN : IsGetData(c, n, f)
           /\ last'.upd
           /\ Range(get_attribute_names(c)) \subseteq DOMAIN scene[n].attrs)
          => last'.step \in {"copy_back", "done"}]_vars

\* The positions of the descriptors in lst: <<i>> is lst[i], <<i>> \o p the
\* descriptor at p among the children of lst[i].
RECURSIVE Positions(_)
Positions(lst) ==
    UNION {{<<i>>} \cup {<<i>> \o p : p \in Positions(lst[i].children)} :
              i \in 1..Len(lst)}

RECURSIVE DescriptorAt(_, _)
DescriptorAt(lst, p) ==
    IF Len(p) = 1 THEN lst[p[1]]
    ELSE DescriptorAt(lst[p[1]].children, Tail(p))

\* Position p comes before position q in pre-order: p is an ancestor of q,
\* or p branches off to the left of q.
PreOrderBefore(p, q) ==
    \/ Len(p) < Len(q) /\ \A k \in 1..Len(p) : p[k] = q[k]
    \/ \E k \in 1..Len(p) :
          /\ k <= Len(q)
          /\ \A j \in 1..(k - 1) : p[j] = q[j]
          /\ p[k] < q[k]

\* C11: get_attribute_names() lists the name of every descriptor and every
\* nested child exactly once, in pre-order: each compound's name
\* immediately before the names of its children, in declared order.
C11_FlattenPreOrder ==
    name_list # None =>
       /\ Len(name_list) = Cardinality(Positions(tree))
       /\ \A p \in Positions(tree) :
             name_list[1 + Cardinality({q \in Positions(tree) :
                                           PreOrderBefore(q, p)})]
                = DescriptorAt(tree, p).name

C11_Witness ==
    /\ name_list # None
    /\ Len(tree) = 2
    /\ tree[1].kind = "Compound" /\ Len(tree[1].children) = 2
    /\ tree[1].children[1].kind = "Compound"
    /\ Len(tree[1].children[1].children) = 1
    /\ Len(name_list) = 5

\* C12: a Record constructed from the string "name:version" written for a
\* data name and a version tuple has that name and that version tuple.
C12_RecordRoundTrip ==
    rt.stage = "read" =>
       /\ rt.rec.name = NameChars(rt.name)
       /\ rt.rec.version = rt.version

C12_Witness ==
    /\ rt.stage = "read" /\ rt.name = "A" /\ rt.version = <<10, 2, 0>>

\* The flags derived from the descriptor tree, which callers do not supply.
ReservedFlags ==
    {"longName", "ln", "attributeType", "at", "dataType", "dt", "parent", "p",
     "numberOfChildren", "nc"}

\* C16: the creation flags of a descriptor or a data-block instance never
\* contain a reserved flag: none after construction, whatever the caller
\* supplied, and none after the descriptor has been created on a node.
C16_ReservedFlagsAbsent ==
    fl.stage # "none" => fl.flags \cap ReservedFlags = {}

\* C17: for every order in which classes are first used, a used class's
\* attributes is the result of its own get_attributes(), and
\* get_attributes() has run at most once for each class.
C17_LazyPerClass ==
    \A c \in LazyClasses :
       /\ calls[c].gets <= 1
       /\ calls[c].uses > 0 => class_attributes(own, c) = get_attributes(c)

\* Every record element of every node is locked.
AllLocked(s) ==
    \A n \in DOMAIN s : \A i \in DOMAIN s[n].records : s[n].records[i].locked

\* No record element kept from s to t has another string in t.
StringsKept(s, t) ==
    \A n \in DOMAIN s \cap DOMAIN t :
       \A i \in DOMAIN s[n].records \cap DOMAIN t[n].records :
          t[n].records[i].str = s[n].records[i].str

\* C18: between operations every record element is locked; the version
\* setter leaves the element locked with a string that encodes the new
\* version; and no step other than the setter (or the setter called by a
\* successful migration) changes the string of a record.
C18_RecordsLocked ==
    [][/\ AllLocked(scene) /\ AllLocked(scene')
       /\ \A c \in Classes, n \in LiveNodes :
             (last'.op = "set_version" /\ last'.cls = c /\ last'.node = n)
             => /\ get_record(scene'[n], c) = get_record(scene[n], c)
                /\ scene'[n].records[get_record(scene[n], c)]
                     = [str |-> <<c, ":">> \o IntToChars(last'.version[1])
                                 \o <<".">> \o IntToChars(last'.version[2])
                                 \o <<".">> \o IntToChars(last'.version[3]),
                        locked |-> TRUE]
       /\ (last'.op # "set_version" /\ ~(last'.op = "get_data" /\ last'.post))
             => StringsKept(scene, scene')]_vars

C18_Witness ==
    /\ last.op = "set_version" /\ last.version = <<1, 1, 0>>
    /\ scene[last.node].records[get_record(scene[last.node], last.cls)]
         = [str |-> record_string(last.cls, version_string(<<1, 1, 0>>)),
            locked |-> TRUE]

\* The indices of node nd's records array whose record is named after
\* class c.
RecordsNamed(nd, c) ==
    {i \in DOMAIN nd.records :
        /\ Len(nd.records[i].str) > 0
        /\ Record(nd.records[i].str).name = NameChars(get_data_name(c))}

\* C21: after any sequence of add_data, get_data and delete_data calls,
\* calls that end in an error included, every node has for every class C
\* exactly one record named C if it has the compound attribute named C's
\* data name and no record named C otherwise.
C21_RecordsMatchTrees ==
    \A n \in LiveNodes, c \in Classes :
        Cardinality(RecordsNamed(scene[n], c)) =
            (IF get_data_name(c) \in DOMAIN scene[n].attrs THEN 1 ELSE 0)

\* The attributes of node nd that are not in the tree of class c.
AttrsOutside(nd, c) ==
    [a \in {x \in DOMAIN nd.attrs : ~IsUnder(nd, x, get_data_name(c))} |->
        nd.attrs[a]]

\* What delete_data of class c is to do to node nd holding the record at
\* index i: the element i and c's tree are gone, all else is as before.
Deleted(nd, c, i) ==
    [nd EXCEPT !.records = [j \in DOMAIN nd.records \ {i} |-> nd.records[j]],
               !.attrs = AttrsOutside(nd, c)]

\* delete_data on a node with a record of the class removes that element
\* and the class's attribute tree and leaves every other class's record
\* (at its index) and attributes as they were, and a following
\* get_data(node) returns absent; on a node without the record it changes
\* nothing.
C22_DeleteFrame ==
    [][last'.op = "delete_data" =>
         LET n == last'.node
             c == last'.cls
             i == get_record(scene[n], c)
         IN /\ last'.result = None
            /\ i = NoRecord => scene' = scene
            /\ i # NoRecord =>
                 /\ scene' = [scene EXCEPT ![n] = Deleted(scene[n], c, i)]
                 /\ get_data_name(c) \notin DOMAIN scene'[n].attrs
                 /\ \A d \in Classes \ {c} :
                       /\ get_record(scene'[n], d) = get_record(scene[n], d)
                       /\ \A a \in DOMAIN scene[n].attrs :
                             IsUnder(scene[n], a, get_data_name(d)) =>
                                /\ a \in DOMAIN scene'[n].attrs
                                /\ scene'[n].attrs[a] = scene[n].attrs[a]
                 /\ get_data(scene', n, c, FALSE, cls_version',
                             AUTO_UPDATE').result = None]_vars

\* The insert that follows a delete_data which removed a record (an
\* add_data of a class without a record on that node and without name
\* conflicts) writes its record at the index the delete freed.
C22_FreedIndexReused ==
    [][(/\ last.op = "delete_data"
        /\ last.freed # NoRecord
        /\ last'.op = "get_data"
        /\ last'.force_add
        /\ ~last'.found
        /\ last'.node = last.node
        /\ _find_attr_conflicts(scene[last.node], last'.cls) = {})
       => /\ last.freed \in DOMAIN scene'[last.node].records
          /\ get_record(scene'[last.node], last'.cls) = last.freed]_vars

\* C22: delete_data(node) on a node with a record of class C removes that
\* record element and C's attribute tree, leaving every other class's
\* record and attributes unchanged, so that a following get_data(node)
\* returns absent and the freed index is reused by the next insert; on a
\* node with no record of C it changes nothing.
C22_DeleteData ==
    C22_DeleteFrame /\ C22_FreedIndexReused

\* The children of the i-th Compound constructed, in heap h.
get_children(h, i) == h[compounds[i].children]

\* C23: each Compound owns its own children list: constructing a Compound
\* (with or without auto-generated children) or calling add_child on it
\* never changes the children of any other Compound, and a Compound of type
\* 'compound' constructed without children starts with zero children
\* regardless of which Compounds were constructed before it.
C23_OwnChildren ==
    [][/\ clast'.op \in {"new", "add_child"} =>
            \A j \in 1..Len(compounds) :
                j # clast'.obj => get_children(heap', j) = get_children(heap, j)
       /\ (/\ clast'.op = "new" /\ clast'.ok
           /\ clast'.attr_type = "compound" /\ clast'.k = NotGiven)
          => Len(heap'[compounds'[clast'.obj].children]) = 0]_vars

====
